---- MODULE Spec2Model ----
(***************************************************************************)
(* Venue matching and match generation of the event-venue marketplace      *)
(* backend: the rules-based scorer and matcher (services/matcher.py), the  *)
(* explainer with its template fallback (services/llm.py), and the two     *)
(* background generation routines with the endpoints that trigger them     *)
(* (api/briefs.py, api/matching.py, api/venues.py).                        *)
(*                                                                         *)
(* Scores are kept in hundredths of a point: the code's WEIGHT * 0.7 is    *)
(* WEIGHT * 70 here and a full weight is WEIGHT * 100.  Every product and  *)
(* sum of the scorer is exact in these units; the float comparisons        *)
(* h <= max * 1.2, h >= min * 0.8 and cost <= budget * 1.1 are written as  *)
(* the integer comparisons they agree with on integer inputs.              *)
(***************************************************************************)
EXTENDS Integers, Sequences, FiniteSets, TLC

\* ------------------------------------------------------------------ bounds
MaxVenues == 2
MaxBriefs == 1
MaxRuns == 2
MaxLimit == 3
MaxCatalog == 2

\* --------------------------------------------------------- Python's None
None == -1
NoBorough == "None"
NoText == <<0>>

Truthy(x) == x # None /\ x # 0
TruthyText(s) == s # NoText /\ s # <<>>

\* ------------------------------------------------------ scoring weights
WEIGHT_CAPACITY == 30
WEIGHT_PRICE == 25
WEIGHT_LOCATION == 20
WEIGHT_AMENITIES == 15
WEIGHT_AVAILABILITY == 10

\* points to hundredths of a point
Pts(n) == n * 100

Max2(a, b) == IF a >= b THEN a ELSE b

\* characters are numbers: an odd number is a lower-case letter and the next
\* even number its upper-case form
LowerChar(c) == IF c % 2 = 0 THEN c - 1 ELSE c
Lower(s) == [i \in 1..Len(s) |-> LowerChar(s[i])]

\* Python's `a in b` on strings
Contains(a, b) ==
    \E k \in 0..(Len(b) - Len(a)) : \A i \in 1..Len(a) : b[k + i] = a[i]

\* ------------------------------------------------------------------ scorer
_score_capacity(venue, brief) ==
    LET headcount == brief.headcount IN
    IF venue.capacity_min <= headcount /\ headcount <= venue.capacity_max
    THEN WEIGHT_CAPACITY * 100
    ELSE IF headcount > venue.capacity_max
    THEN (IF headcount * 10 <= venue.capacity_max * 12
          THEN WEIGHT_CAPACITY * 70
          ELSE 0)
    ELSE IF headcount < venue.capacity_min
    THEN (IF headcount * 10 >= venue.capacity_min * 8
          THEN WEIGHT_CAPACITY * 70
          ELSE WEIGHT_CAPACITY * 50)
    ELSE 0

\* the price score with the 10% margin ending before budget_max * 1.1
_score_price_MarginExclusive(venue, brief) ==
    IF ~Truthy(venue.base_price) /\ ~Truthy(venue.min_spend)
    THEN WEIGHT_PRICE * 50
    ELSE
      LET venue_cost == Max2(IF Truthy(venue.base_price) THEN venue.base_price ELSE 0,
                             IF Truthy(venue.min_spend) THEN venue.min_spend ELSE 0)
      IN
      IF venue_cost <= brief.budget_max
      THEN (IF Truthy(brief.budget_min) /\ venue_cost >= brief.budget_min
            THEN WEIGHT_PRICE * 100
            ELSE IF ~Truthy(brief.budget_min)
            THEN WEIGHT_PRICE * 100
            ELSE WEIGHT_PRICE * 70)
      ELSE IF venue_cost * 10 < brief.budget_max * 11
      THEN WEIGHT_PRICE * 60
      ELSE 0

_score_price(venue, brief) ==
    IF ~Truthy(venue.base_price) /\ ~Truthy(venue.min_spend)
    THEN WEIGHT_PRICE * 50
    ELSE
      LET venue_cost == Max2(IF Truthy(venue.base_price) THEN venue.base_price ELSE 0,
                             IF Truthy(venue.min_spend) THEN venue.min_spend ELSE 0)
      IN
      IF venue_cost <= brief.budget_max
      THEN (IF Truthy(brief.budget_min) /\ venue_cost >= brief.budget_min
            THEN WEIGHT_PRICE * 100
            ELSE IF ~Truthy(brief.budget_min)
            THEN WEIGHT_PRICE * 100
            ELSE WEIGHT_PRICE * 70)
      ELSE IF venue_cost * 10 <= brief.budget_max * 11
      THEN WEIGHT_PRICE * 60
      ELSE 0

\* the adjacency table with the Manhattan entry only
close_boroughs_OneWay(pref) ==
    IF pref = "manhattan" THEN {"brooklyn"}
    ELSE {}

close_boroughs(pref) ==
    IF pref = "manhattan" THEN {"brooklyn"}
    ELSE IF pref = "brooklyn" THEN {"manhattan"}
    ELSE {}

_score_location(venue, brief) ==
    IF brief.borough_pref = NoBorough
    THEN WEIGHT_LOCATION * 100
    ELSE IF venue.borough = brief.borough_pref
    THEN (IF TruthyText(brief.neighborhood_pref) /\ TruthyText(venue.neighborhood)
          THEN (IF Contains(Lower(brief.neighborhood_pref), Lower(venue.neighborhood))
                THEN WEIGHT_LOCATION * 100
                ELSE WEIGHT_LOCATION * 90)
          ELSE WEIGHT_LOCATION * 100)
    ELSE IF venue.borough \in close_boroughs(brief.borough_pref)
    THEN WEIGHT_LOCATION * 50
    ELSE WEIGHT_LOCATION * 30

\* amenities left unscored
_score_amenities_Unscored(venue, brief) == 0

\* an amenities score read from the venue
_score_amenities_FromVenue(venue, brief) ==
    IF Truthy(venue.base_price) THEN WEIGHT_AMENITIES * 100 ELSE WEIGHT_AMENITIES * 50

_score_amenities(venue, brief) ==
    LET max_score == WEIGHT_AMENITIES
        food == IF brief.food_bev_level = "none" THEN max_score * 33
                ELSE IF brief.food_bev_level = "light_bites" THEN max_score * 25
                ELSE IF brief.food_bev_level = "full_catering" THEN max_score * 20
                ELSE 0
        alcohol == IF brief.alcohol_level = "none" THEN max_score * 33
                   ELSE IF brief.alcohol_level = "beer_wine" THEN max_score * 25
                   ELSE IF brief.alcohol_level = "full_bar" THEN max_score * 20
                   ELSE 0
        av == IF brief.av_needs = "none" THEN max_score * 34
              ELSE IF brief.av_needs = "basic_mic" THEN max_score * 25
              ELSE IF brief.av_needs = "full_setup" THEN max_score * 20
              ELSE 0
    IN food + alcohol + av

\* the breakdown with a total that leaves the availability points out
_score_venue_WithoutAvailability(venue, brief) ==
    LET capacity_score == _score_capacity(venue, brief)
        price_score == _score_price(venue, brief)
        location_score == _score_location(venue, brief)
        amenities_score == _score_amenities(venue, brief)
        availability_score == WEIGHT_AVAILABILITY * 100
    IN [capacity |-> capacity_score,
        price |-> price_score,
        location |-> location_score,
        amenities |-> amenities_score,
        availability |-> availability_score,
        total |-> capacity_score + price_score + location_score + amenities_score]

\* the breakdown: the five sub-scores and the total
_score_venue(venue, brief) ==
    LET capacity_score == _score_capacity(venue, brief)
        price_score == _score_price(venue, brief)
        location_score == _score_location(venue, brief)
        amenities_score == _score_amenities(venue, brief)
        availability_score == WEIGHT_AVAILABILITY * 100
    IN [capacity |-> capacity_score,
        price |-> price_score,
        location |-> location_score,
        amenities |-> amenities_score,
        availability |-> availability_score,
        total |-> capacity_score + price_score + location_score
                  + amenities_score + availability_score]

\* -------------------------------------------------------------- explainer
Bullet(kind, n1, n2, n3, s) == [kind |-> kind, n1 |-> n1, n2 |-> n2, n3 |-> n3, s |-> s]

\* the template without its generic bullet: the text may be empty
_generate_fallback_explanation_NoGeneric(venue, brief, score, match_details) ==
    LET capacity == IF match_details.capacity > Pts(20)
                    THEN <<Bullet("capacity", brief.headcount,
                                  venue.capacity_min, venue.capacity_max, "")>>
                    ELSE <<>>
        location == IF match_details.location > Pts(15)
                    THEN <<Bullet("location", 0, 0, 0, venue.borough)>>
                    ELSE <<>>
        price == IF match_details.price > Pts(15)
                 THEN <<Bullet("price", brief.budget_max, 0, 0, "")>>
                 ELSE <<>>
        amenities == IF match_details.amenities > Pts(10)
                     THEN <<Bullet("amenities", 0, 0, 0, "")>>
                     ELSE <<>>
        overall == IF score >= Pts(80)
                   THEN <<Bullet("excellent", 0, 0, 0, "")>>
                   ELSE IF score >= Pts(60)
                   THEN <<Bullet("strong", 0, 0, 0, "")>>
                   ELSE <<>>
    IN capacity \o location \o price \o amenities \o overall

\* the template with the price bullet at a price score of 15 and above
_generate_fallback_explanation_PriceFromFifteen(venue, brief, score, match_details) ==
    LET capacity == IF match_details.capacity > Pts(20)
                    THEN <<Bullet("capacity", brief.headcount,
                                  venue.capacity_min, venue.capacity_max, "")>>
                    ELSE <<>>
        location == IF match_details.location > Pts(15)
                    THEN <<Bullet("location", 0, 0, 0, venue.borough)>>
                    ELSE <<>>
        price == IF match_details.price >= Pts(15)
                 THEN <<Bullet("price", brief.budget_max, 0, 0, "")>>
                 ELSE <<>>
        amenities == IF match_details.amenities > Pts(10)
                     THEN <<Bullet("amenities", 0, 0, 0, "")>>
                     ELSE <<>>
        overall == IF score >= Pts(80)
                   THEN <<Bullet("excellent", 0, 0, 0, "")>>
                   ELSE IF score >= Pts(60)
                   THEN <<Bullet("strong", 0, 0, 0, "")>>
                   ELSE <<>>
        bullets == capacity \o location \o price \o amenities \o overall
    IN IF bullets # <<>> THEN bullets ELSE <<Bullet("generic", 0, 0, 0, "")>>

\* the template with the price bullet before the location bullet
_generate_fallback_explanation_PriceFirst(venue, brief, score, match_details) ==
    LET capacity == IF match_details.capacity > Pts(20)
                    THEN <<Bullet("capacity", brief.headcount,
                                  venue.capacity_min, venue.capacity_max, "")>>
                    ELSE <<>>
        location == IF match_details.location > Pts(15)
                    THEN <<Bullet("location", 0, 0, 0, venue.borough)>>
                    ELSE <<>>
        price == IF match_details.price > Pts(15)
                 THEN <<Bullet("price", brief.budget_max, 0, 0, "")>>
                 ELSE <<>>
        amenities == IF match_details.amenities > Pts(10)
                     THEN <<Bullet("amenities", 0, 0, 0, "")>>
                     ELSE <<>>
        overall == IF score >= Pts(80)
                   THEN <<Bullet("excellent", 0, 0, 0, "")>>
                   ELSE IF score >= Pts(60)
                   THEN <<Bullet("strong", 0, 0, 0, "")>>
                   ELSE <<>>
        bullets == capacity \o price \o location \o amenities \o overall
    IN IF bullets # <<>> THEN bullets ELSE <<Bullet("generic", 0, 0, 0, "")>>

\* the template explanation: the list of bullets, joined by newlines in the code
_generate_fallback_explanation(venue, brief, score, match_details) ==
    LET capacity == IF match_details.capacity > Pts(20)
                    THEN <<Bullet("capacity", brief.headcount,
                                  venue.capacity_min, venue.capacity_max, "")>>
                    ELSE <<>>
        location == IF match_details.location > Pts(15)
                    THEN <<Bullet("location", 0, 0, 0, venue.borough)>>
                    ELSE <<>>
        price == IF match_details.price > Pts(15)
                 THEN <<Bullet("price", brief.budget_max, 0, 0, "")>>
                 ELSE <<>>
        amenities == IF match_details.amenities > Pts(10)
                     THEN <<Bullet("amenities", 0, 0, 0, "")>>
                     ELSE <<>>
        overall == IF score >= Pts(80)
                   THEN <<Bullet("excellent", 0, 0, 0, "")>>
                   ELSE IF score >= Pts(60)
                   THEN <<Bullet("strong", 0, 0, 0, "")>>
                   ELSE <<>>
        bullets == capacity \o location \o price \o amenities \o overall
    IN IF bullets # <<>> THEN bullets ELSE <<Bullet("generic", 0, 0, 0, "")>>

\* the text the external service returned, accepted as it is
LlmText == <<Bullet("llm", 0, 0, 0, "")>>

\* what one call of the external service does
\* what one call of generate_explanation meets: the service answers, the call
\* inside the try block fails, or an exception is raised outside that try block
\* and leaves the method
ApiOutcomes == {"text", "api_error", "raises"}

\* generate_explanation when it returns: the service's text, or the template
\* when the call inside the try block failed
generate_explanation(venue, brief, score, match_details, api) ==
    IF api = "text" THEN LlmText
    ELSE _generate_fallback_explanation(venue, brief, score, match_details)

\* ---------------------------------------------------------------- matcher
RECURSIVE SeqOfSet(_)
\* the rows of a table in primary-key order
SeqOfSet(S) ==
    IF S = {} THEN <<>>
    ELSE LET x == CHOOSE y \in S : \A z \in S : y.id <= z.id
         IN <<x>> \o SeqOfSet(S \ {x})

\* x placed before the elements of equal score: a sort that is not stable
InsertByScore_BeforeTies(sorted, x) ==
    LET k == Cardinality({i \in 1..Len(sorted) : sorted[i].score > x.score})
    IN SubSeq(sorted, 1, k) \o <<x>> \o SubSeq(sorted, k + 1, Len(sorted))

\* x placed behind every element whose score is not lower
InsertByScore(sorted, x) ==
    LET k == Cardinality({i \in 1..Len(sorted) : sorted[i].score >= x.score})
    IN SubSeq(sorted, 1, k) \o <<x>> \o SubSeq(sorted, k + 1, Len(sorted))

\* the list left in catalog order
SortByScore_Unsorted(list) == list

RECURSIVE SortByScore(_)
\* list.sort(key=score, reverse=True): stable, highest score first
SortByScore(list) ==
    IF list = <<>> THEN <<>>
    ELSE InsertByScore(SortByScore(SubSeq(list, 1, Len(list) - 1)), list[Len(list)])

\* the last `limit` entries in place of the first
Take_FromEnd(list, limit) ==
    SubSeq(list, (IF limit < Len(list) THEN Len(list) - limit ELSE 0) + 1, Len(list))

\* list[:limit] for limit >= 0
Take(list, limit) == SubSeq(list, 1, IF limit < Len(list) THEN limit ELSE Len(list))

\* the query with every row of the table, whatever its status
VerifiedVenues_AnyStatus(catalog) == catalog

\* db.query(Venue).filter(Venue.verification_status == "verified")
VerifiedVenues(catalog) == {v \in catalog : v.verification_status = "verified"}

\* find_matches over the rows `catalog` of the venues table
FindMatchesIn(catalog, brief, limit) ==
    LET all == SeqOfSet(VerifiedVenues(catalog))
        scored_all == [i \in 1..Len(all) |->
                          [venue |-> all[i],
                           score |-> _score_venue(all[i], brief).total,
                           details |-> _score_venue(all[i], brief)]]
        kept == SelectSeq(scored_all, LAMBDA x : x.score > 0)
    \* scored_venues is built once, then sorted in place and sliced
    IN CHOOSE top \in {Take(SortByScore(scored_venues), limit) :
                          scored_venues \in {kept}} : TRUE

\* ------------------------------------------------------------------ inputs
\* the accounts: a host and a venue owner
Users == {[id |-> 1, is_host |-> TRUE, is_venue_owner |-> FALSE],
          [id |-> 2, is_host |-> FALSE, is_venue_owner |-> TRUE]}

\* request bodies of POST /venues
VenueA == [capacity_min |-> 50, capacity_max |-> 100, borough |-> "manhattan",
           neighborhood |-> <<2, 3>>, base_price |-> 4000, min_spend |-> None]
VenueB == [capacity_min |-> 200, capacity_max |-> 300, borough |-> "brooklyn",
           neighborhood |-> NoText, base_price |-> 3000, min_spend |-> None]
VenueInputs ==
    {VenueA, VenueB,
     [capacity_min |-> 100, capacity_max |-> 50, borough |-> "queens",
      neighborhood |-> NoText, base_price |-> None, min_spend |-> None]}

\* request bodies of PUT /venues/{id}: the fields that were set
VenueUpdates ==
    {[verification_status |-> "verified"],
     [capacity_max |-> 40],
     [capacity_min |-> 120, capacity_max |-> 60],
     [base_price |-> 3500]}

\* request bodies of POST /briefs
BriefInputs ==
    {[headcount |-> 80, borough_pref |-> "manhattan", neighborhood_pref |-> NoText,
      budget_min |-> None, budget_max |-> 5000,
      food_bev_level |-> "none", alcohol_level |-> "none", av_needs |-> "none"],
     [headcount |-> 250, borough_pref |-> NoBorough, neighborhood_pref |-> <<1>>,
      budget_min |-> 3500, budget_max |-> 3800,
      food_bev_level |-> "full_catering", alcohol_level |-> "beer_wine",
      av_needs |-> "basic_mic"]}

\* ------------------------------------------------------------------- state
VARIABLES
    venues,     \* the rows of table venues
    briefs,     \* the rows of table event_briefs
    results,    \* the committed rows of table match_results
    tasks,      \* the background tasks, in the order they were added
    api_key,    \* whether ANTHROPIC_API_KEY is set in the environment
    response,   \* what the last call of POST /matching/briefs/{id}/generate returned
    returned,   \* what the last direct call of find_matches returned
    scored,     \* what the last direct call of _score_venue returned
    explained,  \* what the last direct call of _generate_fallback_explanation returned
    listing     \* what the last call of GET /matching/briefs/{id}/matches returned

vars == <<venues, briefs, results, tasks, api_key, response, returned, scored, explained, listing>>

\* limit=10 of both generation routines
MatchLimit == 10

find_matches(brief, limit) == FindMatchesIn(venues, brief, limit)

ResultsOf(brief_id) == {m \in results : m.brief_id = brief_id}

NoResponse == [message |-> "", brief_id |-> 0, match_count |-> None]

\* venue rows for the catalogs find_matches is applied to directly
CatalogVenues ==
    {VenueA, VenueB,
     [capacity_min |-> 60, capacity_max |-> 70, borough |-> "queens",
      neighborhood |-> NoText, base_price |-> None, min_spend |-> 5400],
     [capacity_min |-> 10, capacity_max |-> 40, borough |-> "bronx",
      neighborhood |-> NoText, base_price |-> 9000, min_spend |-> 2000],
     [capacity_min |-> 80, capacity_max |-> 80, borough |-> "brooklyn",
      neighborhood |-> <<1, 2>>, base_price |-> None, min_spend |-> None]}

VerificationStatuses == {"pending", "verified", "rejected"}

\* the table rows of a list of venues, numbered in list order
CatalogOf(list) ==
    {[id |-> i,
      owner_id |-> 2,
      borough |-> list[i][1].borough,
      neighborhood |-> list[i][1].neighborhood,
      capacity_min |-> list[i][1].capacity_min,
      capacity_max |-> list[i][1].capacity_max,
      base_price |-> list[i][1].base_price,
      min_spend |-> list[i][1].min_spend,
      verification_status |-> list[i][2]] : i \in 1..Len(list)}

BriefRow(brief_id, brief) ==
    [id |-> brief_id,
     host_id |-> 1,
     headcount |-> brief.headcount,
     borough_pref |-> brief.borough_pref,
     neighborhood_pref |-> brief.neighborhood_pref,
     budget_min |-> brief.budget_min,
     budget_max |-> brief.budget_max,
     food_bev_level |-> brief.food_bev_level,
     alcohol_level |-> brief.alcohol_level,
     av_needs |-> brief.av_needs]

\* what table venues holds when the application starts: nothing, one verified
\* venue, two verified venues of which the second scores higher for the first
\* brief, and a pending venue before a verified one
StoredCatalogs ==
    {<<>>,
     <<<<VenueA, "verified">>>>,
     <<<<VenueB, "verified">>, <<VenueA, "verified">>>>,
     <<<<VenueA, "pending">>, <<VenueB, "verified">>>>}

NoCall == [called |-> FALSE, brief_id |-> 0, limit |-> 0, matches |-> <<>>]

NoDetails == [capacity |-> 0, price |-> 0, location |-> 0, amenities |-> 0,
              availability |-> 0, total |-> 0]

NoScore == [called |-> FALSE, venue_id |-> 0, brief_id |-> 0, details |-> NoDetails]

NoListing == [called |-> FALSE, brief_id |-> 0, match_count |-> None, matches |-> <<>>,
              message |-> ""]

NoExplanation == [called |-> FALSE, venue_id |-> 0, brief_id |-> 0, score |-> 0,
                  match_details |-> NoDetails, text |-> <<>>]

Init ==
    /\ \E list \in StoredCatalogs : venues = CatalogOf(list)
    /\ briefs = {}
    /\ results = {}
    /\ tasks = <<>>
    /\ api_key \in BOOLEAN
    /\ response = NoResponse
    /\ returned = NoCall
    /\ scored = NoScore
    /\ explained = NoExplanation
    /\ listing = NoListing

\* ------------------------------------------------------- venue endpoints
\* the primary key a new row of `table` gets: above every key the table holds
NextId(table) ==
    IF table = {} THEN 1
    ELSE (CHOOSE k \in {row.id : row \in table} : \A row \in table : row.id <= k) + 1

\* POST /venues: a venue owner creates a venue, which starts "pending"
create_venue(venue_data, current_user) ==
    /\ Cardinality(venues) < MaxVenues
    /\ current_user.is_venue_owner
    /\ ~(venue_data.capacity_max < venue_data.capacity_min)
    /\ venues' = venues \cup
         {[id |-> NextId(venues),
           owner_id |-> current_user.id,
           borough |-> venue_data.borough,
           neighborhood |-> venue_data.neighborhood,
           capacity_min |-> venue_data.capacity_min,
           capacity_max |-> venue_data.capacity_max,
           base_price |-> venue_data.base_price,
           min_spend |-> venue_data.min_spend,
           verification_status |-> "pending"]}
    /\ UNCHANGED <<briefs, results, tasks, api_key, response, returned, scored, explained, listing>>

\* setattr(venue, field, value) for every field that was set
SetFields(row, update_data) ==
    [f \in DOMAIN row |-> IF f \in DOMAIN update_data THEN update_data[f] ELSE row[f]]

Given(update_data, f) == f \in DOMAIN update_data /\ Truthy(update_data[f])

\* an update that also drops the match results computed from the venue
update_venue_DropsMatches(venue_id, venue_data, current_user) ==
    \E venue \in venues :
      /\ venue.id = venue_id
      /\ venue.owner_id = current_user.id
      /\ venues' = (venues \ {venue}) \cup {SetFields(venue, venue_data)}
      /\ results' = {m \in results : m.venue_id # venue_id}
      /\ UNCHANGED <<briefs, tasks, api_key, response, returned, scored, explained, listing>>

\* PUT /venues/{id}: the owner sets the given fields
update_venue(venue_id, venue_data, current_user) ==
    \E venue \in venues :
      /\ venue.id = venue_id
      /\ venue.owner_id = current_user.id
      /\ LET updated == SetFields(venue, venue_data) IN
           /\ ~(/\ Given(venue_data, "capacity_min")
                /\ Given(venue_data, "capacity_max")
                /\ updated.capacity_max < updated.capacity_min)
           /\ venues' = (venues \ {venue}) \cup {updated}
      /\ UNCHANGED <<briefs, results, tasks, api_key, response, returned, scored, explained, listing>>

\* DELETE /venues/{id}: the owner deletes the venue row. match_results.venue_id
\* is a foreign key without ON DELETE and Venue has no relationship to
\* MatchResult, so when a MatchResult refers to the venue the commit either
\* raises (a database that enforces the key) and nothing changes, or removes
\* the venue row alone (a database that does not)
delete_venue(venue_id, current_user) ==
    \E venue \in venues :
      /\ venue.id = venue_id
      /\ venue.owner_id = current_user.id
      /\ \/ venues' = venues \ {venue}
         \/ /\ \E m \in results : m.venue_id = venue_id
            /\ venues' = venues
      /\ UNCHANGED <<briefs, results, tasks, api_key, response, returned, scored, explained, listing>>

\* ---------------------------------------------------- background tasks
NewTask(routine, brief) ==
    [routine |-> routine,   \* the function that was added as a task
     brief |-> brief,       \* the brief object it was given
     pc |-> "queued",       \* queued, loop, done, failed
     scored_venues |-> <<>>,
     i |-> 0,               \* items of scored_venues handled so far
     added |-> <<>>,        \* the MatchResults added to the session, not yet committed
     raised |-> {},         \* ranks whose generate_explanation raised
     error |-> "",          \* the exception that ended the run
     reraised |-> FALSE]    \* whether the routine raised it again

\* ------------------------------------------------------- brief endpoint
\* POST /briefs: a host creates a brief; matching is added as a background task
create_brief(brief, current_user) ==
    /\ Cardinality(briefs) < MaxBriefs
    /\ Len(tasks) < MaxRuns
    /\ current_user.is_host
    /\ LET db_brief == [id |-> Cardinality(briefs) + 1,
                        host_id |-> current_user.id,
                        headcount |-> brief.headcount,
                        borough_pref |-> brief.borough_pref,
                        neighborhood_pref |-> brief.neighborhood_pref,
                        budget_min |-> brief.budget_min,
                        budget_max |-> brief.budget_max,
                        food_bev_level |-> brief.food_bev_level,
                        alcohol_level |-> brief.alcohol_level,
                        av_needs |-> brief.av_needs]
       IN /\ briefs' = briefs \cup {db_brief}
          /\ tasks' = Append(tasks, NewTask("_generate_matches_for_brief", db_brief))
    /\ UNCHANGED <<venues, results, api_key, response, returned, scored, explained, listing>>

\* request bodies of PATCH /briefs/{id}: the fields that were set
BriefUpdates ==
    {[budget_min |-> 6000],
     [budget_min |-> None],
     [budget_max |-> 3000],
     [budget_max |-> None],
     [headcount |-> 250],
     [borough_pref |-> "brooklyn"],
     [neighborhood_pref |-> <<5>>],
     [alcohol_level |-> "full_bar"]}

\* the columns of event_briefs declared nullable=False
BriefNotNull == {"headcount", "budget_max"}

\* PATCH /briefs/{id}: the host sets the given fields; the commit fails on a
\* null in a column that does not take one
update_brief(brief_id, brief_update, current_user) ==
    \E brief \in briefs :
      /\ brief.id = brief_id
      /\ brief.host_id = current_user.id
      /\ LET updated == SetFields(brief, brief_update) IN
           /\ \A f \in BriefNotNull : updated[f] # None
           /\ briefs' = (briefs \ {brief}) \cup {updated}
      /\ UNCHANGED <<venues, results, tasks, api_key, response, returned, scored,
                     explained, listing>>

\* ---------------------------------------------------- matching endpoint
\* the existence check passing a single stored row
MatchesExist_MoreThanOne(existing_matches) == existing_matches > 1

\* the existence check of generate_matches
MatchesExist(existing_matches) == existing_matches > 0

\* POST /matching/briefs/{id}/generate
generate_matches(brief_id, current_user) ==
    \E brief \in briefs :
      /\ brief.id = brief_id
      /\ brief.host_id = current_user.id \/ current_user.is_venue_owner
      /\ LET existing_matches == Cardinality(ResultsOf(brief_id)) IN
           IF MatchesExist(existing_matches)
           THEN /\ response' = [message |-> "Matches already exist for this brief",
                                brief_id |-> brief_id,
                                match_count |-> existing_matches]
                /\ UNCHANGED tasks
           ELSE /\ Len(tasks) < MaxRuns
                /\ tasks' = Append(tasks, NewTask("_generate_and_store_matches", brief))
                /\ response' = [message |-> "Matching started - results will be available shortly",
                                brief_id |-> brief_id,
                                match_count |-> None]
      /\ UNCHANGED <<venues, briefs, results, api_key, returned, scored, explained, listing>>

RECURSIVE OrderedByRank(_)
\* the orders in which ORDER BY rank may return the rows `matches`: rows of
\* equal rank come in any order
OrderedByRank(matches) ==
    IF matches = {} THEN {<<>>}
    ELSE LET lowest == {m \in matches : \A n \in matches : m.rank <= n.rank}
         IN UNION {{<<m>> \o rest : rest \in OrderedByRank(matches \ {m})} : m \in lowest}

\* the entries of the response: one for each match whose venue row is found
FormatMatches_WithoutVenue(matches, catalog) ==
    [i \in 1..Len(matches) |->
        [match_id |-> matches[i].id,
         rank |-> matches[i].rank,
         score |-> matches[i].score,
         explanation |-> matches[i].explanation,
         venue |-> [id |-> matches[i].venue_id]]]

\* the loop of get_matches: `if venue:` skips a match whose venue is not found
FormatMatches(matches, catalog) ==
    LET found == SelectSeq(matches, LAMBDA m : \E venue \in catalog : venue.id = m.venue_id)
    IN [i \in 1..Len(found) |->
          [match_id |-> found[i].id,
           rank |-> found[i].rank,
           score |-> found[i].score,
           explanation |-> found[i].explanation,
           venue |-> [id |-> found[i].venue_id]]]

\* GET /matching/briefs/{id}/matches: only the host of the brief
get_matches(brief_id, current_user) ==
    \E brief \in briefs :
      /\ brief.id = brief_id
      /\ brief.host_id = current_user.id
      /\ \E matches \in OrderedByRank(ResultsOf(brief_id)) :
           listing' = IF matches = <<>>
                      THEN [called |-> TRUE, brief_id |-> brief_id, match_count |-> None,
                            matches |-> <<>>,
                            message |-> "No matches found. Generating matches..."]
                      ELSE LET results_list == FormatMatches(matches, venues)
                           IN [called |-> TRUE, brief_id |-> brief_id,
                               match_count |-> Len(results_list),
                               matches |-> results_list,
                               message |-> ""]
      /\ UNCHANGED <<venues, briefs, results, tasks, api_key, response, returned, scored, explained>>

\* ------------------------------------------------- generation routines
\* an except branch that never returns: the run stays where it failed
ExceptBranch_NeverReturns(task, error) == [task EXCEPT !.error = error]

\* the except branch of a routine: db.rollback() drops what was added;
\* _generate_and_store_matches raises the exception again
ExceptBranch(task, error) ==
    [task EXCEPT !.pc = "failed",
                 !.added = <<>>,
                 !.error = error,
                 !.reraised = (task.routine = "_generate_and_store_matches")]

\* the loop with enumerate starting at 0 in _generate_and_store_matches
LoopBody_RankFromZero(task, api) ==
    LET rank == task.i + 1
        item == task.scored_venues[rank]
        explanation ==
            IF api = "raises"
            THEN _generate_fallback_explanation(item.venue, task.brief,
                                                item.score, item.details)
            ELSE generate_explanation(item.venue, task.brief,
                                      item.score, item.details, api)
        match_result == [brief_id |-> task.brief.id,
                         venue_id |-> item.venue.id,
                         score |-> item.score,
                         explanation |-> explanation,
                         rank |-> IF task.routine = "_generate_and_store_matches"
                                  THEN rank - 1 ELSE rank]
    IN [task EXCEPT !.i = rank,
                    !.added = Append(task.added, match_result),
                    !.raised = IF api = "raises" THEN task.raised \cup {rank}
                               ELSE task.raised]

\* the loop without its try/except: an exception of generate_explanation
\* reaches the except branch of the routine
LoopBody_NoCatch(task, api) ==
    LET rank == task.i + 1
        item == task.scored_venues[rank]
        match_result == [brief_id |-> task.brief.id,
                         venue_id |-> item.venue.id,
                         score |-> item.score,
                         explanation |-> generate_explanation(item.venue, task.brief,
                                                              item.score, item.details, api),
                         rank |-> rank]
    IN IF api = "raises"
       THEN [ExceptBranch(task, "Exception") EXCEPT !.raised = task.raised \cup {rank}]
       ELSE [task EXCEPT !.i = rank, !.added = Append(task.added, match_result)]

\* the body of the loop over scored_venues: the explanation, from the template
\* when generate_explanation raised, and the MatchResult added to the session
LoopBody(task, api) ==
    LET rank == task.i + 1
        item == task.scored_venues[rank]
        explanation ==
            IF api = "raises"
            THEN _generate_fallback_explanation(item.venue, task.brief,
                                                item.score, item.details)
            ELSE generate_explanation(item.venue, task.brief,
                                      item.score, item.details, api)
        match_result == [brief_id |-> task.brief.id,
                         venue_id |-> item.venue.id,
                         score |-> item.score,
                         explanation |-> explanation,
                         rank |-> rank]
    IN [task EXCEPT !.i = rank,
                    !.added = Append(task.added, match_result),
                    !.raised = IF api = "raises" THEN task.raised \cup {rank}
                               ELSE task.raised]

\* db.commit(): every added row is inserted, with the next primary keys, at once
db_commit(table, added) ==
    table \cup {[id |-> Cardinality(table) + k,
                 brief_id |-> added[k].brief_id,
                 venue_id |-> added[k].venue_id,
                 score |-> added[k].score,
                 explanation |-> added[k].explanation,
                 rank |-> added[k].rank] : k \in 1..Len(added)}

\* a rollback that comes after the added rows were written
db_rollback_AfterFlush(table, added) == db_commit(table, added)

\* db.rollback(): nothing of what was added reaches the table
db_rollback(table, added) == table

\* MatchExplainer() raises ValueError when the key is not set
RunInitFails(t) ==
    /\ tasks[t].pc = "queued"
    /\ ~api_key
    /\ tasks' = [tasks EXCEPT ![t] = ExceptBranch(tasks[t], "ValueError")]
    /\ results' = db_rollback(results, tasks[t].added)
    /\ UNCHANGED <<venues, briefs, api_key, response, returned, scored, explained, listing>>

\* a find_matches that stores its first entry while it reads the catalog
RunFindMatches_StoresFirst(t) ==
    /\ tasks[t].pc = "queued"
    /\ api_key
    /\ LET list == find_matches(tasks[t].brief, MatchLimit) IN
         /\ tasks' = [tasks EXCEPT ![t].pc = "loop", ![t].scored_venues = list]
         /\ results' = IF list = <<>> THEN results
                       ELSE results \cup {[id |-> Cardinality(results) + 1,
                                           brief_id |-> tasks[t].brief.id,
                                           venue_id |-> list[1].venue.id,
                                           score |-> list[1].score,
                                           explanation |-> <<>>,
                                           rank |-> 1]}
    /\ UNCHANGED <<venues, briefs, api_key, response, returned, scored, explained, listing>>

\* the services are built and find_matches reads the catalog
RunFindMatches(t) ==
    /\ tasks[t].pc = "queued"
    /\ api_key
    /\ tasks' = [tasks EXCEPT ![t].pc = "loop",
                              ![t].scored_venues = find_matches(tasks[t].brief, MatchLimit)]
    /\ UNCHANGED <<venues, briefs, results, api_key, response, returned, scored, explained, listing>>

\* one iteration of the loop
RunExplain(t, api) ==
    /\ tasks[t].pc = "loop"
    /\ tasks[t].i < Len(tasks[t].scored_venues)
    /\ tasks' = [tasks EXCEPT ![t] = LoopBody(tasks[t], api)]
    /\ UNCHANGED <<venues, briefs, results, api_key, response, returned, scored, explained, listing>>

\* db.commit() after the loop
RunCommit(t) ==
    /\ tasks[t].pc = "loop"
    /\ tasks[t].i = Len(tasks[t].scored_venues)
    /\ results' = db_commit(results, tasks[t].added)
    /\ tasks' = [tasks EXCEPT ![t].pc = "done", ![t].added = <<>>]
    /\ UNCHANGED <<venues, briefs, api_key, response, returned, scored, explained, listing>>

\* the database fails in the catalog query or in the commit
RunStorageError(t) ==
    /\ \/ tasks[t].pc = "queued" /\ api_key
       \/ tasks[t].pc = "loop" /\ tasks[t].i = Len(tasks[t].scored_venues)
    /\ tasks' = [tasks EXCEPT ![t] = ExceptBranch(tasks[t], "StorageError")]
    /\ results' = db_rollback(results, tasks[t].added)
    /\ UNCHANGED <<venues, briefs, api_key, response, returned, scored, explained, listing>>

Next ==
    \/ \E u \in Users, d \in BriefInputs : create_brief(d, u)
    \/ \E u \in Users, b \in 1..MaxBriefs : generate_matches(b, u)
    \/ \E t \in 1..Len(tasks) : RunInitFails(t)
    \/ \E t \in 1..Len(tasks) : RunFindMatches(t)
    \/ \E t \in 1..Len(tasks), api \in ApiOutcomes : RunExplain(t, api)
    \/ \E t \in 1..Len(tasks) : RunCommit(t)
    \/ \E t \in 1..Len(tasks) : RunStorageError(t)

Spec == Init /\ [][Next]_vars

\* the next step of the run of task t: a background task that was added is
\* started after the response and each of its calls returns or raises
RunStep(t) ==
    /\ t \in DOMAIN tasks
    /\ \/ RunInitFails(t)
       \/ RunFindMatches(t)
       \/ \E api \in ApiOutcomes : RunExplain(t, api)
       \/ RunCommit(t)
       \/ RunStorageError(t)

LiveSpec == Spec /\ \A t \in 1..MaxRuns : WF_vars(RunStep(t))

\* ------------------------------------------- the venue endpoints alone
InitVenues ==
    /\ venues = {}
    /\ briefs = {}
    /\ results = {}
    /\ tasks = <<>>
    /\ api_key = TRUE
    /\ response = NoResponse
    /\ returned = NoCall
    /\ scored = NoScore
    /\ explained = NoExplanation
    /\ listing = NoListing

NextVenues ==
    \/ \E u \in Users, d \in VenueInputs : create_venue(d, u)
    \/ \E u \in Users, v \in 1..MaxVenues, d \in VenueUpdates : update_venue(v, d, u)

VenueSpec == InitVenues /\ [][NextVenues]_vars

\* ------------------------------------------- the brief endpoints alone
\* request bodies of POST /briefs, one with budget_min above budget_max
BriefCreateInputs ==
    BriefInputs \cup
    {[headcount |-> 80, borough_pref |-> "manhattan", neighborhood_pref |-> NoText,
      budget_min |-> 6000, budget_max |-> 5000,
      food_bev_level |-> "none", alcohol_level |-> "none", av_needs |-> "none"]}

NextBriefs ==
    \/ \E u \in Users, d \in BriefCreateInputs : create_brief(d, u)
    \/ \E u \in Users, b \in 1..MaxBriefs, d \in BriefUpdates : update_brief(b, d, u)

BriefSpec == InitVenues /\ [][NextBriefs]_vars

\* ------------------------- the endpoints around stored match results
\* one verified venue is stored when the application starts
InitLifecycle ==
    /\ venues = CatalogOf(<<<<VenueA, "verified">>>>)
    /\ briefs = {}
    /\ results = {}
    /\ tasks = <<>>
    /\ api_key = TRUE
    /\ response = NoResponse
    /\ returned = NoCall
    /\ scored = NoScore
    /\ explained = NoExplanation
    /\ listing = NoListing

\* the request bodies sent to the endpoints around stored results: a second
\* venue, a change of status, of price and of capacity, a change of the brief
LifecycleVenueInputs == {VenueB}

LifecycleVenueUpdates ==
    {[verification_status |-> "pending"], [base_price |-> 3500], [capacity_max |-> 40]}

LifecycleBriefInputs == {d \in BriefInputs : d.headcount = 80}

LifecycleBriefUpdates == {[headcount |-> 250]}

NextLifecycle ==
    \/ \E u \in Users, d \in LifecycleBriefInputs : create_brief(d, u)
    \/ \E u \in Users, b \in 1..MaxBriefs : generate_matches(b, u)
    \/ \E t \in 1..Len(tasks) : RunFindMatches(t)
    \/ \E t \in 1..Len(tasks) : RunExplain(t, "text")
    \/ \E t \in 1..Len(tasks) : RunCommit(t)
    \/ \E t \in 1..Len(tasks) : RunStorageError(t)
    \/ \E u \in Users, d \in LifecycleVenueInputs : create_venue(d, u)
    \/ \E u \in Users, v \in 1..MaxVenues, d \in LifecycleVenueUpdates : update_venue(v, d, u)
    \/ \E u \in Users, v \in 1..MaxVenues : delete_venue(v, u)
    \/ \E u \in Users, b \in 1..MaxBriefs, d \in LifecycleBriefUpdates : update_brief(b, d, u)
    \/ \E u \in Users, b \in 1..MaxBriefs : get_matches(b, u)

LifecycleSpec == InitLifecycle /\ [][NextLifecycle]_vars

\* ------------------------------------------ the matcher called directly
InitMatcher ==
    /\ \E n \in 0..MaxCatalog :
         \E list \in [1..n -> CatalogVenues \X VerificationStatuses] :
           venues = CatalogOf(list)
    /\ \E brief \in BriefInputs : briefs = {BriefRow(1, brief)}
    /\ results = {}
    /\ tasks = <<>>
    /\ api_key = TRUE
    /\ response = NoResponse
    /\ returned = NoCall
    /\ scored = NoScore
    /\ explained = NoExplanation
    /\ listing = NoListing

\* find_matches(brief, limit) is called and its list kept
CallFindMatches(brief, limit) ==
    /\ returned' = [called |-> TRUE, brief_id |-> brief.id, limit |-> limit,
                    matches |-> find_matches(brief, limit)]
    /\ UNCHANGED <<venues, briefs, results, tasks, api_key, response, scored, explained, listing>>

NextMatcher == \E brief \in briefs, limit \in 0..MaxLimit : CallFindMatches(brief, limit)

MatcherSpec == InitMatcher /\ [][NextMatcher]_vars

\* ------------------------------------------- the scorer called directly
\* capacity ranges: one as POST /venues stores it, one whose capacity_max was
\* lowered alone by PUT /venues/{id}
ScoreCapacities == {<<50, 100>>, <<50, 40>>}

\* base_price and min_spend
ScorePrices == {<<None, None>>, <<4000, None>>, <<None, 5500>>, <<5501, 2000>>}

\* borough and neighborhood of a venue
ScoreVenueLocations ==
    {<<"manhattan", <<2, 3>>>>, <<"manhattan", NoText>>, <<"brooklyn", NoText>>,
     <<"queens", <<5>>>>, <<"bronx", NoText>>}

ScoreVenues ==
    {[capacity_min |-> c[1], capacity_max |-> c[2],
      borough |-> l[1], neighborhood |-> l[2],
      base_price |-> p[1], min_spend |-> p[2]] :
       c \in ScoreCapacities, p \in ScorePrices, l \in ScoreVenueLocations}

ScoreHeadcounts == {39, 40, 49, 50, 100, 120, 121, 130}

\* budget_min and budget_max
ScoreBudgets == {<<None, 5000>>, <<0, 5000>>, <<4000, 5000>>, <<4500, 5000>>,
                 <<3500, 3800>>}

\* borough_pref and neighborhood_pref of a brief
ScoreBriefLocations ==
    {<<NoBorough, NoText>>, <<"manhattan", NoText>>, <<"manhattan", <<>>>>,
     <<"manhattan", <<2>>>>, <<"manhattan", <<5>>>>, <<"brooklyn", <<5>>>>,
     <<"queens", NoText>>}

FoodBevLevels == {"none", "light_bites", "full_catering"}
AlcoholLevels == {"none", "beer_wine", "full_bar"}
AVNeedsLevels == {"none", "basic_mic", "full_setup"}

\* the brief of 80 guests in Manhattan with a budget of 5000, with every
\* amenity request
ScenarioBriefs ==
    {[headcount |-> 80, borough_pref |-> "manhattan", neighborhood_pref |-> NoText,
      budget_min |-> None, budget_max |-> 5000,
      food_bev_level |-> f, alcohol_level |-> a, av_needs |-> v] :
       f \in FoodBevLevels, a \in AlcoholLevels, v \in AVNeedsLevels}

\* every headcount, budget and location with two amenity requests, and every
\* amenity request with one headcount, budget and location
ScoreBriefs ==
    {[headcount |-> h, borough_pref |-> l[1], neighborhood_pref |-> l[2],
      budget_min |-> b[1], budget_max |-> b[2],
      food_bev_level |-> a[1], alcohol_level |-> a[2], av_needs |-> a[3]] :
       h \in ScoreHeadcounts, b \in ScoreBudgets, l \in ScoreBriefLocations,
       a \in {<<"none", "none", "none">>, <<"full_catering", "full_bar", "full_setup">>}}
    \cup ScenarioBriefs

InitScorer ==
    /\ \E venue \in ScoreVenues : venues = CatalogOf(<<<<venue, "verified">>>>)
    /\ \E brief \in ScoreBriefs : briefs = {BriefRow(1, brief)}
    /\ results = {}
    /\ tasks = <<>>
    /\ api_key = TRUE
    /\ response = NoResponse
    /\ returned = NoCall
    /\ scored = NoScore
    /\ explained = NoExplanation
    /\ listing = NoListing

\* _score_venue(venue, brief) is called and its breakdown kept
CallScoreVenue(venue, brief) ==
    /\ scored' = [called |-> TRUE, venue_id |-> venue.id, brief_id |-> brief.id,
                  details |-> _score_venue(venue, brief)]
    /\ UNCHANGED <<venues, briefs, results, tasks, api_key, response, returned, explained, listing>>

\* the template is called with the breakdown the scorer returned, as the
\* except branch of the loop of both routines calls it
CallFallbackOnBreakdown(venue, brief) ==
    /\ scored.called
    /\ scored.venue_id = venue.id
    /\ scored.brief_id = brief.id
    /\ explained' = [called |-> TRUE, venue_id |-> venue.id, brief_id |-> brief.id,
                     score |-> scored.details.total, match_details |-> scored.details,
                     text |-> _generate_fallback_explanation(venue, brief,
                                                             scored.details.total,
                                                             scored.details)]
    /\ UNCHANGED <<venues, briefs, results, tasks, api_key, response, returned, scored,
                   listing>>

NextScorer ==
    \/ \E venue \in venues, brief \in briefs : CallScoreVenue(venue, brief)
    \/ \E venue \in venues, brief \in briefs : CallFallbackOnBreakdown(venue, brief)

ScorerSpec == InitScorer /\ [][NextScorer]_vars

\* ------------------------- the matcher on the catalog of venues A and B
InitScenario ==
    /\ \E list \in {<<<<VenueA, "verified">>, <<VenueB, "verified">>>>,
                     <<<<VenueB, "verified">>, <<VenueA, "verified">>>>} :
         venues = CatalogOf(list)
    /\ \E brief \in ScenarioBriefs : briefs = {BriefRow(1, brief)}
    /\ results = {}
    /\ tasks = <<>>
    /\ api_key = TRUE
    /\ response = NoResponse
    /\ returned = NoCall
    /\ scored = NoScore
    /\ explained = NoExplanation
    /\ listing = NoListing

ScenarioSpec == InitScenario /\ [][NextMatcher]_vars

\* ------------------------------- the template explanation called directly
\* breakdowns on both sides of every threshold of the template
ExplainDetails ==
    {[capacity |-> c, price |-> p, location |-> l, amenities |-> a,
      availability |-> Pts(WEIGHT_AVAILABILITY), total |-> t] :
       c \in {Pts(20), Pts(21), Pts(25)},
       l \in {Pts(6), Pts(15), Pts(18)},
       p \in {Pts(10), Pts(15), 1750},
       a \in {Pts(5), Pts(10), 1260},
       t \in {Pts(25), Pts(58), Pts(60), Pts(80)}}

InitExplainer ==
    /\ \E venue \in {VenueA, VenueB} : venues = CatalogOf(<<<<venue, "verified">>>>)
    /\ \E brief \in BriefInputs : briefs = {BriefRow(1, brief)}
    /\ results = {}
    /\ tasks = <<>>
    /\ api_key = TRUE
    /\ response = NoResponse
    /\ returned = NoCall
    /\ scored = NoScore
    /\ explained = NoExplanation
    /\ listing = NoListing

\* _generate_fallback_explanation(venue, brief, score, match_details) is called
\* and its text kept
CallFallbackExplanation(venue, brief, score, match_details) ==
    /\ explained' = [called |-> TRUE, venue_id |-> venue.id, brief_id |-> brief.id,
                     score |-> score, match_details |-> match_details,
                     text |-> _generate_fallback_explanation(venue, brief, score,
                                                             match_details)]
    /\ UNCHANGED <<venues, briefs, results, tasks, api_key, response, returned, scored, listing>>

NextExplainer ==
    \E venue \in venues, brief \in briefs, match_details \in ExplainDetails :
      CallFallbackExplanation(venue, brief, match_details.total, match_details)

ExplainerSpec == InitExplainer /\ [][NextExplainer]_vars

\* ================================================================ claims
TaskIds == 1..Len(tasks)
BriefIds == {b.id : b \in briefs}

\* a row of match_results without its primary key
Fields(m) == [brief_id |-> m.brief_id, venue_id |-> m.venue_id, score |-> m.score,
              explanation |-> m.explanation, rank |-> m.rank]

Range(list) == {list[k] : k \in 1..Len(list)}

\* C1: under any interleaving of the triggers for one brief there is at most
\* one persisted MatchResult per (brief, rank) and at most one per (brief, venue).
C1_AtMostOnePerRankAndVenue ==
    \A m1 \in results, m2 \in results :
      (m1.id # m2.id /\ m1.brief_id = m2.brief_id)
        => (m1.rank # m2.rank /\ m1.venue_id # m2.venue_id)

\* a run for the brief has committed a non-empty result set
CommittedNonEmpty(brief_id) ==
    \E t \in TaskIds : /\ tasks[t].brief.id = brief_id
                       /\ tasks[t].pc = "done"
                       /\ tasks[t].scored_venues # <<>>

\* C2: once a run for a brief has committed a non-empty result set, an explicit
\* generate call for that brief adds no task, reports the existing count and
\* leaves the persisted rows as they are.
C2_GenerateAfterCommitIsNoOp ==
    [][\A b \in 1..MaxBriefs, u \in Users :
         (CommittedNonEmpty(b) /\ generate_matches(b, u))
           => /\ tasks' = tasks
              /\ results' = results
              /\ response'.message = "Matches already exist for this brief"
              /\ response'.brief_id = b
              /\ response'.match_count = Cardinality(ResultsOf(b))]_vars

C2_Witness ==
    /\ response.message = "Matches already exist for this brief"
    /\ response.match_count = Cardinality(ResultsOf(response.brief_id))
    /\ response.match_count >= 2
    /\ CommittedNonEmpty(response.brief_id)

\* C3: the MatchResults visible for a brief are either none or one complete
\* ranked set, the set one run built and committed.
C3_NoneOrOneCompleteSet ==
    \A b \in BriefIds :
      \/ ResultsOf(b) = {}
      \/ \E t \in TaskIds :
           /\ tasks[t].brief.id = b
           /\ tasks[t].pc = "done"
           /\ Cardinality(ResultsOf(b)) = Len(tasks[t].scored_venues)
           /\ \A k \in 1..Len(tasks[t].scored_venues) :
                \E m \in ResultsOf(b) :
                  /\ m.rank = k
                  /\ m.venue_id = tasks[t].scored_venues[k].venue.id
                  /\ m.score = tasks[t].scored_venues[k].score

\* C4: the explainer never fails outward: no exception of the explainer
\* reaches the routine that uses it.
C4_ExplainerNeverFailsOutward ==
    \A t \in TaskIds : tasks[t].error # "ValueError" /\ tasks[t].raised = {}

\* the rows a commit of task t inserts in this step are exactly one per item
\* the matcher returned, with the template explanation on the items that raised
CommitsOnePerItem(t) ==
    LET list == tasks[t].scored_venues
        inserted == results' \ results
    IN /\ results \subseteq results'
       /\ Cardinality(inserted) = Len(list)
       /\ \A k \in 1..Len(list) :
            \E m \in inserted :
              /\ m.brief_id = tasks[t].brief.id
              /\ m.venue_id = list[k].venue.id
              /\ m.score = list[k].score
              /\ m.rank = k
              /\ k \in tasks[t].raised =>
                   m.explanation =
                     _generate_fallback_explanation(list[k].venue, tasks[t].brief,
                                                    list[k].score, list[k].details)

\* C5: when generate_explanation raised for some items of a run, the run is not
\* aborted by it: it goes on through the list (only a storage error at the
\* commit can still fail it), and its commit stores exactly one MatchResult per
\* item the matcher returned, with the template explanation on the items that
\* raised.
C5_RaisingItemsDoNotAbort ==
    /\ [](\A t \in TaskIds :
            tasks[t].raised # {} =>
              /\ tasks[t].pc = "loop" => Len(tasks[t].added) = tasks[t].i
              /\ tasks[t].pc = "failed" =>
                   /\ tasks[t].error = "StorageError"
                   /\ tasks[t].i = Len(tasks[t].scored_venues))
    /\ [][\A t \in TaskIds :
            (tasks[t].pc = "loop" /\ tasks'[t].pc = "done") => CommitsOnePerItem(t)]_vars

C5_Witness ==
    \E t \in TaskIds :
      /\ tasks[t].pc = "done"
      /\ Len(tasks[t].scored_venues) >= 2
      /\ tasks[t].raised # {}
      /\ tasks[t].raised # 1..Len(tasks[t].scored_venues)

\* a run for the brief has completed with zero results
CompletedEmpty(brief_id) ==
    \E t \in TaskIds : /\ tasks[t].brief.id = brief_id
                       /\ tasks[t].pc = "done"
                       /\ tasks[t].scored_venues = <<>>

\* C6: after a run for a brief has completed with zero results, no trigger
\* starts a new run for that brief and no MatchResult is created for it.
C6_EmptyRunIsRemembered ==
    [][\A b \in 1..MaxBriefs :
         CompletedEmpty(b)
           => /\ \A t \in 1..Len(tasks') :
                   (t > Len(tasks) => tasks'[t].brief.id # b)
              /\ ResultsOf(b)' = ResultsOf(b)]_vars

\* C7: when a run reaches its commit while MatchResults of its brief are already
\* stored, the commit inserts nothing and the run ends without an error.
C7_LosingWriterInsertsNothing ==
    [][\A t \in TaskIds :
         (/\ tasks[t].pc = "loop"
          /\ tasks[t].i = Len(tasks[t].scored_venues)
          /\ tasks[t].added # <<>>
          /\ ResultsOf(tasks[t].brief.id) # {}
          /\ tasks'[t].pc = "done")
           => /\ results' = results
              /\ tasks'[t].error = ""]_vars

\* C8: a run that fails before its commit is rolled back: no step of a run
\* other than its commit changes the stored rows, the failing step included,
\* and what the run had added is dropped.
C8_FailedRunLeavesResults ==
    [][\A t \in TaskIds :
         (tasks'[t] # tasks[t] /\ tasks'[t].pc # "done")
           => /\ results' = results
              /\ tasks'[t].pc = "failed" => tasks'[t].added = <<>>]_vars

C8_Witness ==
    \E t \in TaskIds :
      /\ tasks[t].pc = "failed"
      /\ tasks[t].error = "StorageError"
      /\ tasks[t].i >= 2
      /\ tasks[t].added = <<>>
      /\ ResultsOf(tasks[t].brief.id) = {}

\* C9: the ranks of a brief's persisted MatchResults are exactly 1..n without
\* gap or repeat, each rank is the position of its venue in the list the matcher
\* returned, and a higher score has a lower rank.
C9_RanksDenseAndOrdered ==
    \A b \in BriefIds :
      LET rows == ResultsOf(b) IN
        /\ {m.rank : m \in rows} = 1..Cardinality(rows)
        /\ \A m1 \in rows, m2 \in rows : m1.score > m2.score => m1.rank < m2.rank
        /\ \A m \in rows :
             \E t \in TaskIds :
               /\ tasks[t].brief.id = b
               /\ m.rank <= Len(tasks[t].scored_venues)
               /\ tasks[t].scored_venues[m.rank].venue.id = m.venue_id

\* C10: find_matches returns no venue whose total score is 0, and the scores
\* of its list never increase from one entry to the next.
C10_NoZeroAndDescending ==
    returned.called =>
      /\ \A i \in 1..Len(returned.matches) : returned.matches[i].score # 0
      /\ \A i \in 1..Len(returned.matches), j \in 1..Len(returned.matches) :
           i < j => returned.matches[i].score >= returned.matches[j].score

C10_Witness ==
    /\ returned.called
    /\ Len(returned.matches) = 2
    /\ returned.matches[1].venue.id > returned.matches[2].venue.id
    /\ returned.matches[1].score > returned.matches[2].score

\* the stored venue with the given primary key
VenueOf(venue_id) == CHOOSE v \in venues : v.id = venue_id

\* C11: a venue whose verification status is not "verified" when find_matches
\* runs is not in the list the run got, whatever its score, and the run stores
\* no MatchResult for it.
C11_UnverifiedNeverMatched ==
    /\ \A t \in TaskIds :
         \A k \in 1..Len(tasks[t].scored_venues) :
           /\ tasks[t].scored_venues[k].venue \in venues
           /\ tasks[t].scored_venues[k].venue.verification_status = "verified"
    /\ \A t \in TaskIds :
         \A k \in 1..Len(tasks[t].added) :
           VenueOf(tasks[t].added[k].venue_id).verification_status = "verified"
    /\ \A m \in results : VenueOf(m.venue_id).verification_status = "verified"

C11_Witness ==
    \E t \in TaskIds :
      /\ tasks[t].pc = "done"
      /\ ResultsOf(tasks[t].brief.id) # {}
      /\ \E v \in venues :
           /\ v.verification_status = "pending"
           /\ \A m \in ResultsOf(tasks[t].brief.id) :
                _score_venue(v, tasks[t].brief).total > m.score

\* the brief the last direct call of find_matches was given
ReturnedBrief == CHOOSE b \in briefs : b.id = returned.brief_id

\* the venues find_matches may return for the brief
Eligible(brief) ==
    {v \in venues : /\ v.verification_status = "verified"
                    /\ _score_venue(v, brief).total > 0}

\* v comes before w in the descending order that keeps the catalog's order on ties
Before(v, w, brief) ==
    \/ _score_venue(v, brief).total > _score_venue(w, brief).total
    \/ /\ _score_venue(v, brief).total = _score_venue(w, brief).total
       /\ v.id < w.id

\* C12: find_matches(brief, limit) returns the first `limit` elements of the
\* stable descending sort of the verified venues with non-zero score: the list
\* has min(limit, number of such venues) entries, each with its venue's score,
\* entries of equal score are in catalog order, and every venue left out comes
\* after every venue returned.
C12_FirstLimitOfStableSort ==
    returned.called =>
      LET brief == ReturnedBrief
          list == returned.matches
          E == Eligible(brief)
      IN /\ Len(list) = (IF returned.limit < Cardinality(E) THEN returned.limit
                         ELSE Cardinality(E))
         /\ \A i \in 1..Len(list) :
              /\ list[i].venue \in E
              /\ list[i].score = _score_venue(list[i].venue, brief).total
              /\ list[i].details = _score_venue(list[i].venue, brief)
         /\ \A i \in 1..Len(list), j \in 1..Len(list) :
              i < j => Before(list[i].venue, list[j].venue, brief)
         /\ \A v \in E :
              (\A i \in 1..Len(list) : list[i].venue # v)
                => \A i \in 1..Len(list) : Before(list[i].venue, v, brief)

C12_Witness ==
    /\ returned.called
    /\ returned.limit = 1
    /\ Len(returned.matches) = 1
    /\ \E v \in Eligible(ReturnedBrief) :
         /\ v.id > returned.matches[1].venue.id
         /\ _score_venue(v, ReturnedBrief).total = returned.matches[1].score

\* the run has called find_matches and holds its list
HoldsList(t) == tasks[t].pc \in {"loop", "done"}

\* C13: find_matches performs no writes: the step of a run that calls it leaves
\* every venue, brief and MatchResult as it was, and the runs for one brief,
\* whatever was committed between their calls, hold the same list.
C13_FindMatchesWritesNothing ==
    /\ [](\A t1 \in TaskIds, t2 \in TaskIds :
            (/\ HoldsList(t1)
             /\ HoldsList(t2)
             /\ tasks[t1].brief = tasks[t2].brief)
              => tasks[t1].scored_venues = tasks[t2].scored_venues)
    /\ [][\A t \in TaskIds :
            (tasks[t].pc = "queued" /\ tasks'[t].pc = "loop")
              => /\ venues' = venues
                 /\ briefs' = briefs
                 /\ results' = results]_vars

C13_Witness ==
    \E t1 \in TaskIds, t2 \in TaskIds :
      /\ t1 # t2
      /\ tasks[t1].pc = "done"
      /\ tasks[t2].pc = "loop"
      /\ tasks[t2].i = 0
      /\ results # {}
      /\ Len(tasks[t2].scored_venues) = 2

\* the venue and the brief the last direct call of _score_venue was given
ScoredVenue == CHOOSE v \in venues : v.id = scored.venue_id
ScoredBrief == CHOOSE b \in briefs : b.id = scored.brief_id

\* C14: each of the five sub-scores lies between 0 and its weight, the total is
\* the sum of the five sub-scores, and the total lies in [0, 100].
C14_SubScoresWithinWeights ==
    scored.called =>
      LET d == scored.details IN
        /\ 0 <= d.capacity /\ d.capacity <= Pts(WEIGHT_CAPACITY)
        /\ 0 <= d.price /\ d.price <= Pts(WEIGHT_PRICE)
        /\ 0 <= d.location /\ d.location <= Pts(WEIGHT_LOCATION)
        /\ 0 <= d.amenities /\ d.amenities <= Pts(WEIGHT_AMENITIES)
        /\ 0 <= d.availability /\ d.availability <= Pts(WEIGHT_AVAILABILITY)
        /\ d.total = d.capacity + d.price + d.location + d.amenities + d.availability
        /\ 0 <= d.total /\ d.total <= Pts(100)
        /\ WEIGHT_CAPACITY = 30 /\ WEIGHT_PRICE = 25
        /\ WEIGHT_LOCATION = 20 /\ WEIGHT_AMENITIES = 15
        /\ WEIGHT_AVAILABILITY = 10

C14_Witness ==
    /\ scored.called
    /\ scored.details.total = Pts(100)
    /\ scored.details.amenities = Pts(WEIGHT_AMENITIES)

\* C15: the capacity sub-score is 30 when capacity_min <= headcount <=
\* capacity_max; when headcount > capacity_max it is 21 if headcount <= 1.2 x
\* capacity_max and 0 otherwise; when headcount < capacity_min it is 21 if
\* headcount >= 0.8 x capacity_min and 15 otherwise, never 0.
C15_CapacityScore ==
    scored.called =>
      LET venue == ScoredVenue
          headcount == ScoredBrief.headcount
          capacity_score == scored.details.capacity
      IN /\ (venue.capacity_min <= headcount /\ headcount <= venue.capacity_max)
              => capacity_score = Pts(30)
         /\ headcount > venue.capacity_max
              => capacity_score = (IF headcount * 10 <= venue.capacity_max * 12
                                   THEN Pts(21) ELSE 0)
         /\ headcount < venue.capacity_min
              => capacity_score = (IF headcount * 10 >= venue.capacity_min * 8
                                   THEN Pts(21) ELSE Pts(15))

\* the cost estimate of a venue that has a price
CostOf(venue) ==
    Max2(IF venue.base_price = None THEN 0 ELSE venue.base_price,
         IF venue.min_spend = None THEN 0 ELSE venue.min_spend)

\* C16: the price sub-score is 12.5 when the venue has neither base price nor
\* minimum spend; otherwise, with cost = max(base_price, min_spend): 25 if
\* cost <= budget_max, except 17.5 if a budget_min is given and cost <
\* budget_min; 15 if budget_max < cost <= 1.1 x budget_max; 0 above that.
C16_PriceScore ==
    scored.called =>
      LET venue == ScoredVenue
          brief == ScoredBrief
          cost == CostOf(venue)
          price_score == scored.details.price
      IN IF venue.base_price = None /\ venue.min_spend = None
         THEN price_score = 1250
         ELSE /\ cost <= brief.budget_max
                   => price_score = (IF brief.budget_min # None /\ cost < brief.budget_min
                                     THEN 1750 ELSE Pts(25))
              /\ (brief.budget_max < cost /\ cost * 10 <= brief.budget_max * 11)
                   => price_score = Pts(15)
              /\ cost * 10 > brief.budget_max * 11 => price_score = 0

C16_Witness ==
    /\ scored.called
    /\ ScoredVenue.min_spend # None
    /\ ScoredVenue.base_price = None
    /\ CostOf(ScoredVenue) * 10 = ScoredBrief.budget_max * 11
    /\ scored.details.price = Pts(15)

\* the brief's neighborhood preference is found in the venue's neighborhood,
\* letter case aside; a venue without a recorded neighborhood has none to match
NeighborhoodMatches(venue, brief) ==
    /\ venue.neighborhood # NoText
    /\ Contains(Lower(brief.neighborhood_pref), Lower(venue.neighborhood))

\* C17: when the venue's borough equals the brief's preferred borough the
\* location sub-score is 20, and 18 for every venue, with or without a recorded
\* neighborhood, when the brief gives a neighborhood preference that does not
\* match the venue's neighborhood.
C17_SameBoroughLocationScore ==
    scored.called =>
      LET venue == ScoredVenue
          brief == ScoredBrief
      IN (brief.borough_pref # NoBorough /\ venue.borough = brief.borough_pref)
           => scored.details.location =
                (IF TruthyText(brief.neighborhood_pref) /\ ~NeighborhoodMatches(venue, brief)
                 THEN Pts(18) ELSE Pts(20))

\* C18: the location sub-score is 20 for every venue when the brief states no
\* borough preference, 10 when the preferred and the venue's borough are
\* Manhattan and Brooklyn in either direction, 6 for every other pair of
\* different boroughs, and so never 0.
C18_BoroughMismatchIsSoft ==
    scored.called =>
      LET venue == ScoredVenue
          brief == ScoredBrief
          location_score == scored.details.location
      IN /\ brief.borough_pref = NoBorough => location_score = Pts(20)
         /\ (brief.borough_pref # NoBorough /\ venue.borough # brief.borough_pref)
              => location_score =
                   (IF {venue.borough, brief.borough_pref} = {"manhattan", "brooklyn"}
                    THEN Pts(10) ELSE Pts(6))
         /\ location_score > 0

C18_Witness ==
    /\ scored.called
    /\ ScoredBrief.borough_pref = "brooklyn"
    /\ ScoredVenue.borough = "manhattan"
    /\ scored.details.location = Pts(10)

\* the brief with all three requirements at the most demanding level
MostDemanding(brief) ==
    [brief EXCEPT !.food_bev_level = "full_catering",
                  !.alcohol_level = "full_bar",
                  !.av_needs = "full_setup"]

\* the brief with no requirement
NoRequirement(brief) ==
    [brief EXCEPT !.food_bev_level = "none", !.alcohol_level = "none", !.av_needs = "none"]

\* the amenities score of the brief with one requirement set to another level
WithLevel(venue, brief, dimension, level) ==
    _score_amenities(venue, [brief EXCEPT ![dimension] = level])

\* one dimension adds 25% of the weight at its middle level, 20% at its most
\* demanding level and more than both at none, whatever the other two levels are
AddsIndependently(venue, brief, dimension, mid, top) ==
    LET base == WithLevel(venue, brief, dimension, top)
        lowest == WithLevel(venue, MostDemanding(brief), dimension, top)
    IN /\ WithLevel(venue, brief, dimension, mid) - base
            = WEIGHT_AMENITIES * 25 - WEIGHT_AMENITIES * 20
       /\ WithLevel(venue, brief, dimension, "none") > WithLevel(venue, brief, dimension, mid)
       /\ WithLevel(venue, brief, dimension, "none") - base
            = WithLevel(venue, MostDemanding(brief), dimension, "none") - lowest
       /\ lowest = 3 * WEIGHT_AMENITIES * 20

\* C19: the amenities sub-score depends only on the brief's three requirement
\* levels and not on the venue; each dimension adds its level's share
\* independently (none the highest, the middle level 25% of the weight, the
\* most demanding level 20%); the sub-score is largest, and at most the weight
\* 15, when all three levels are none.
C19_AmenitiesFromBriefOnly ==
    scored.called =>
      LET venue == ScoredVenue
          brief == ScoredBrief
      IN /\ \A other \in ScoreVenues :
              _score_amenities(other, brief) = scored.details.amenities
         /\ AddsIndependently(venue, brief, "food_bev_level", "light_bites", "full_catering")
         /\ AddsIndependently(venue, brief, "alcohol_level", "beer_wine", "full_bar")
         /\ AddsIndependently(venue, brief, "av_needs", "basic_mic", "full_setup")
         /\ scored.details.amenities <= _score_amenities(venue, NoRequirement(brief))
         /\ _score_amenities(venue, NoRequirement(brief)) <= Pts(15)

C19_Witness ==
    /\ scored.called
    /\ ScoredBrief.food_bev_level = "light_bites"
    /\ ScoredBrief.alcohol_level = "none"
    /\ ScoredBrief.av_needs = "full_setup"
    /\ scored.details.amenities
         = WEIGHT_AMENITIES * 25 + WEIGHT_AMENITIES * 33 + WEIGHT_AMENITIES * 20

\* the kinds of the bullets of a text, in order
Kinds(text) == [k \in 1..Len(text) |-> text[k].kind]

CategoryKinds == {"capacity", "location", "price", "amenities"}
OverallKinds == {"excellent", "strong"}

\* the category bullets whose sub-score exceeds its threshold, in the fixed order
QualifyingCategories(match_details) ==
    (IF match_details.capacity > Pts(20) THEN <<"capacity">> ELSE <<>>)
    \o (IF match_details.location > Pts(15) THEN <<"location">> ELSE <<>>)
    \o (IF match_details.price > Pts(15) THEN <<"price">> ELSE <<>>)
    \o (IF match_details.amenities > Pts(10) THEN <<"amenities">> ELSE <<>>)

\* C20: the fallback explanation has one category bullet for exactly the
\* categories whose sub-score exceeds its threshold (capacity > 20, location >
\* 15, price > 15, amenities > 10), in the order capacity, location, price,
\* amenities, followed by the overall bullet if there is one; sub-scores 25, 18,
\* 10, 5 with total 58 give the capacity and the location bullet and nothing else.
C20_FallbackCategoryBullets ==
    explained.called =>
      LET kinds == Kinds(explained.text)
          categories == SelectSeq(kinds, LAMBDA k : k \in CategoryKinds)
          expected == QualifyingCategories(explained.match_details)
      IN /\ categories = expected
         /\ \A k \in 1..Len(kinds) :
              kinds[k] \in CategoryKinds => k <= Len(categories)
         /\ \A k \in 1..Len(kinds) :
              kinds[k] \in OverallKinds => k = Len(kinds)
         /\ (/\ explained.match_details.capacity = Pts(25)
             /\ explained.match_details.location = Pts(18)
             /\ explained.match_details.price = Pts(10)
             /\ explained.match_details.amenities = Pts(5)
             /\ explained.score = Pts(58))
              => kinds = <<"capacity", "location">>

C20_Witness ==
    /\ explained.called
    /\ explained.match_details.capacity = Pts(25)
    /\ explained.match_details.location = Pts(18)
    /\ explained.match_details.price = Pts(10)
    /\ explained.match_details.amenities = Pts(5)
    /\ explained.score = Pts(58)
    /\ Len(explained.text) = 2

\* C21: the fallback ends with the 'excellent' bullet when total >= 80, with the
\* 'strong' bullet when 60 <= total < 80, and has no closing bullet below 60;
\* it is the single generic bullet exactly when no category bullet and no
\* closing bullet qualifies, so the text is never empty.
C21_FallbackClosingBullet ==
    explained.called =>
      LET kinds == Kinds(explained.text)
          closing == SelectSeq(kinds, LAMBDA k : k \in OverallKinds)
          nothing_qualifies ==
              /\ QualifyingCategories(explained.match_details) = <<>>
              /\ explained.score < Pts(60)
      IN /\ explained.score >= Pts(80) => closing = <<"excellent">>
         /\ (Pts(60) <= explained.score /\ explained.score < Pts(80))
              => closing = <<"strong">>
         /\ explained.score < Pts(60) => closing = <<>>
         /\ closing # <<>> => kinds[Len(kinds)] = closing[1]
         /\ nothing_qualifies <=> kinds = <<"generic">>
         /\ \A k \in 1..Len(kinds) : kinds[k] = "generic" => Len(kinds) = 1
         /\ explained.text # <<>>

C21_Witness ==
    /\ explained.called
    /\ Kinds(explained.text) = <<"generic">>
    /\ explained.match_details.capacity = Pts(20)
    /\ explained.match_details.location = Pts(15)
    /\ explained.match_details.price = Pts(15)
    /\ explained.match_details.amenities = Pts(10)

\* the stored row was created from the request body
RowOf(row, venue_data) ==
    /\ row.capacity_min = venue_data.capacity_min
    /\ row.capacity_max = venue_data.capacity_max
    /\ row.borough = venue_data.borough
    /\ row.base_price = venue_data.base_price

\* C22: for the brief {headcount 80, budget_max 5000, Manhattan preferred} with
\* any amenity levels and the verified venues A {50-100, Manhattan, 4000} and
\* B {200-300, Brooklyn, 3000}, find_matches has A before B, A's total is at
\* least 90 and B's location sub-score is 10.
C22_VenueABeforeVenueB ==
    returned.called =>
      LET list == returned.matches IN
        /\ returned.limit >= 1
             => /\ Len(list) >= 1
                /\ RowOf(list[1].venue, VenueA)
                /\ list[1].score >= Pts(90)
        /\ returned.limit >= 2
             => /\ Len(list) = 2
                /\ RowOf(list[2].venue, VenueB)
                /\ list[2].details.location = Pts(10)
        /\ \A i \in 1..Len(list), j \in 1..Len(list) :
             (RowOf(list[i].venue, VenueA) /\ RowOf(list[j].venue, VenueB)) => i < j

C22_Witness ==
    /\ returned.called
    /\ Len(returned.matches) = 2
    /\ returned.matches[1].venue.id = 2
    /\ RowOf(returned.matches[1].venue, VenueA)
    /\ returned.matches[1].score = Pts(94)
    /\ returned.matches[2].details.location = Pts(10)

\* C26: after any sequence of create_venue and update_venue calls every stored
\* venue has capacity_min <= capacity_max.
C26_CapacityRangeOrdered ==
    \A venue \in venues : venue.capacity_min <= venue.capacity_max

\* C27: after any sequence of create_brief and update_brief calls every stored
\* brief has a budget_max, and budget_min <= budget_max when budget_min is present.
C27_BudgetRangeOrdered ==
    \A brief \in briefs :
      /\ brief.budget_max # None
      /\ brief.budget_min # None => brief.budget_min <= brief.budget_max

\* C28: every venue scores at least 25 in total against every brief (location
\* >= 6, amenities >= 9, availability = 10), so the 'score > 0' filter removes
\* no venue and find_matches returns exactly min(limit, number of verified
\* venues) results.
C28_EveryVerifiedVenueCounts ==
    returned.called =>
      LET brief == ReturnedBrief
          verified == {v \in venues : v.verification_status = "verified"}
      IN /\ \A v \in venues :
              LET d == _score_venue(v, brief) IN
                /\ d.location >= Pts(6)
                /\ d.amenities >= Pts(9)
                /\ d.availability = Pts(10)
                /\ d.total >= Pts(25)
         /\ Eligible(brief) = verified
         /\ Len(returned.matches) = (IF returned.limit < Cardinality(verified)
                                     THEN returned.limit ELSE Cardinality(verified))

C28_Witness ==
    /\ returned.called
    /\ Len(returned.matches) = 2
    /\ Cardinality({v \in venues : v.verification_status = "verified"}) = 2
    /\ returned.limit > 2
    /\ returned.matches[2].details.capacity = 0
    /\ returned.matches[2].details.price = 0
    /\ returned.matches[2].details.location = Pts(6)

\* the venue and the brief the last direct call of the template was given
ExplainedVenue == CHOOSE v \in venues : v.id = explained.venue_id
ExplainedBrief == CHOOSE b \in briefs : b.id = explained.brief_id

HasPriceBullet(text) == \E k \in 1..Len(text) : text[k].kind = "price"

\* C29: on a breakdown the scorer produced, the fallback explanation has the
\* 'Within your budget' bullet only for a venue that has a price and whose cost,
\* the higher of base price and minimum spend, is at most the brief's
\* budget_max; an over-budget venue and a venue with no price never get it.
C29_BudgetBulletOnlyWithinBudget ==
    explained.called =>
      LET venue == ExplainedVenue
          brief == ExplainedBrief
      IN /\ explained.match_details = _score_venue(venue, brief)
         /\ HasPriceBullet(explained.text)
              => /\ venue.base_price # None \/ venue.min_spend # None
                 /\ CostOf(venue) <= brief.budget_max

C29_Witness ==
    /\ explained.called
    /\ explained.match_details.price = Pts(15)
    /\ CostOf(ExplainedVenue) > ExplainedBrief.budget_max
    /\ ~HasPriceBullet(explained.text)

\* two runs of the two different routines for the same brief
BothRoutines(t1, t2) ==
    /\ tasks[t1].routine = "_generate_matches_for_brief"
    /\ tasks[t2].routine = "_generate_and_store_matches"
    /\ tasks[t1].brief = tasks[t2].brief

\* the explainer did the same for item k in both runs: it answered, it failed
\* inside generate_explanation, or it raised
SameOutcome(t1, t2, k) ==
    /\ k \in tasks[t1].raised <=> k \in tasks[t2].raised
    /\ tasks[t1].added[k].explanation = LlmText <=> tasks[t2].added[k].explanation = LlmText

Ended(t) == t \in TaskIds /\ tasks[t].pc \in {"done", "failed"}

\* C25: every generation run that starts eventually ends, by committing all of
\* its results or by rolling back with none of them persisted; the stored rows
\* only change by the commit of a whole run, one row per item of its list.
C25_RunsEndAtomically ==
    /\ \A t \in 1..MaxRuns : (t \in TaskIds) ~> Ended(t)
    /\ [](\A t \in TaskIds : tasks[t].pc = "failed" => tasks[t].added = <<>>)
    /\ [][results' # results
            => \E t \in TaskIds : /\ tasks[t].pc = "loop"
                                  /\ tasks'[t].pc = "done"
                                  /\ CommitsOnePerItem(t)]_vars

C25_Witness ==
    \E t1 \in TaskIds, t2 \in TaskIds :
      /\ tasks[t1].pc = "done"
      /\ Cardinality(results) = Len(tasks[t1].scored_venues)
      /\ Len(tasks[t1].scored_venues) = 2
      /\ tasks[t2].pc = "failed"
      /\ tasks[t2].i = 2

\* the response l lists the rows `stored`: one entry per row with the row's
\* fields, by ascending rank, and match_count is the number of rows
ListsStored(l, stored) ==
    /\ Len(l.matches) = Cardinality(stored)
    /\ {l.matches[i].match_id : i \in 1..Len(l.matches)} = {m.id : m \in stored}
    /\ \A i \in 1..Len(l.matches) :
         \E m \in stored : /\ m.id = l.matches[i].match_id
                           /\ m.rank = l.matches[i].rank
                           /\ m.score = l.matches[i].score
                           /\ m.explanation = l.matches[i].explanation
                           /\ m.venue_id = l.matches[i].venue.id
    /\ \A i \in 1..Len(l.matches), j \in 1..Len(l.matches) :
         i < j => l.matches[i].rank <= l.matches[j].rank
    /\ l.match_count = Cardinality(stored)

\* C23: whatever happened before, venue updates and deletions included, a
\* get_matches for a brief that has stored MatchResults returns exactly those
\* rows, one entry per row, by ascending rank, with match_count the number of
\* stored rows.
C23_ListsEveryStoredMatch ==
    [][\A u \in Users, b \in 1..MaxBriefs :
          (get_matches(b, u) /\ ResultsOf(b) # {}) => ListsStored(listing', ResultsOf(b))]_vars

\* a step of one of the endpoints that change a brief or a venue row
ChangesBriefOrVenue ==
    \/ \E u \in Users, b \in 1..MaxBriefs, d \in LifecycleBriefUpdates : update_brief(b, d, u)
    \/ \E u \in Users, d \in LifecycleVenueInputs : create_venue(d, u)
    \/ \E u \in Users, v \in 1..MaxVenues, d \in LifecycleVenueUpdates : update_venue(v, d, u)

\* C24: update_brief, create_venue and update_venue leave the stored
\* MatchResults as they are: the same rows with the same venue, score, rank and
\* explanation, also when the brief or the venue they came from changes.
C24_MatchResultsNeverMutated ==
    [][ChangesBriefOrVenue => results' = results]_vars

\* the results of a finished run are stored while the brief and a venue they
\* were computed from have since changed, and a further venue exists
C24_Witness ==
    \E t \in TaskIds :
      /\ tasks[t].pc = "done"
      /\ tasks[t].scored_venues # <<>>
      /\ \E b \in briefs : b.id = tasks[t].brief.id /\ b.headcount # tasks[t].brief.headcount
      /\ \E k \in 1..Len(tasks[t].scored_venues), v \in venues, m \in results :
           /\ v.id = tasks[t].scored_venues[k].venue.id
           /\ v.verification_status = "pending"
           /\ v.base_price # tasks[t].scored_venues[k].venue.base_price
           /\ v.capacity_max # tasks[t].scored_venues[k].venue.capacity_max
           /\ m.venue_id = v.id
           /\ m.brief_id = tasks[t].brief.id
           /\ m.rank = k
           /\ m.score = tasks[t].scored_venues[k].score
      /\ Cardinality(venues) = 2

====
